---------------------------- MODULE Spec2Model ----------------------------
(***************************************************************************)
(* Model of celloracle/_velocyto_replacement/estimation.py: the wrappers   *)
(* colDeltaCor / colDeltaCorpartial and the two numba kernels they run     *)
(* under prange.                                                           *)
(*                                                                         *)
(* Numbers.  Matrix entries are integer multiples of a quantum that the    *)
(* variable unit names: "one" (entries are 0, 1, 2, ...) or "eps"          *)
(* (entries are 0, 1e-10, 2e-10, ...).  Arithmetic is exact.  To stay in   *)
(* the integers every centred quantity is carried multiplied by rows:      *)
(*   rows * (x[j] - mean(x)) = rows * x[j] - sum(x),                       *)
(* so sums of squares are carried multiplied by rows^2.  A correlation     *)
(* numerator / (a_norm * b_norm) is kept as its sign and its square, a     *)
(* reduced fraction, so equal values are equal records.  Rounding of       *)
(* float64 operations (and their reordering under fastmath) is not         *)
(* modelled.                                                               *)
(*                                                                         *)
(* Scheduling.  prange hands the columns c to worker threads in any order; *)
(* one iteration of the outer loop is one step.                            *)
(*                                                                         *)
(* Indexing.  The kernels are compiled without bounds checks.  A negative  *)
(* index counts from the end; any other index outside the array addresses  *)
(* the flat buffer at row * cols + index: another element of the array, or *)
(* memory outside it, whose content is arbitrary on reads and whose        *)
(* overwriting is recorded in corrupted.                                   *)
(***************************************************************************)
EXTENDS Integers, Sequences, FiniteSets, TLC

\* Bounds of the input families.
Genes == 3
Cells == 2
MaxVal == 1
K == 2

VARIABLES
    op,         \* "colDeltaCor" or "colDeltaCorpartial": the entry point called
    unit,       \* quantum of the matrix entries: "one" or "eps"
    emat,       \* argument emat, genes x cells: emat[j][c]
    dmat,       \* argument dmat
    ixs,        \* argument ixs, cells x k (NoIxs for colDeltaCor)
    pc,         \* "called", "kernel", "returned", "raised"
    err,        \* which ValueError was raised: "none", "shape", "ixs"
    out,        \* the output matrix, NoOut until np.zeros allocates it
    done,       \* prange iterations (columns c) that have run
    touched,    \* <<c, r, i>>: iteration c changed out[r][i]
    corrupted   \* an iteration stored outside the buffer of out

vars == <<op, unit, emat, dmat, ixs, pc, err, out, done, touched, corrupted>>

NoIxs == <<>>
NoOut == <<>>

----------------------------------------------------------------------------
\* Shapes and exact arithmetic

NRows(m) == Cardinality(DOMAIN m)

NCols(m) == IF NRows(m) = 0 THEN 0 ELSE Cardinality(DOMAIN m[0])

Shape(m) == <<NRows(m), NCols(m)>>

RECURSIVE SumFn(_, _)
\* f[0] + ... + f[n-1]
SumFn(f, n) == IF n = 0 THEN 0 ELSE f[n - 1] + SumFn(f, n - 1)

SumSq(v, n) == SumFn([j \in 0..(n - 1) |-> v[j] * v[j]], n)

RECURSIVE GCD(_, _)
GCD(a, b) == IF b = 0 THEN a ELSE GCD(b, a % b)

\* Values of a float64 entry of out
Zero == [sgn |-> 0, num |-> 0, den |-> 1]
NaN == [sgn |-> 0, num |-> 0, den |-> 0]
Inf(s) == [sgn |-> s, num |-> 1, den |-> 0]

Sign(x) == IF x > 0 THEN 1 ELSE IF x < 0 THEN -1 ELSE 0

\* numerator / (a_norm * b_norm), from the numerator and the two sums of squares
Divide(numerator, a_ss, b_ss) ==
    IF a_ss * b_ss = 0
        THEN IF numerator = 0 THEN NaN ELSE Inf(Sign(numerator))
    ELSE IF numerator = 0 THEN Zero
    ELSE LET p == numerator * numerator
             q == a_ss * b_ss
             g == GCD(p, q)
         IN  [sgn |-> Sign(numerator), num |-> p \div g, den |-> q \div g]

\* Faulty variant of BelowEps: the skip test compares with 0 instead of 1e-10.
BelowZero(ss, rows, u) == ss < 0

\* norm < 1e-10, for norm = sqrt(ss) / rows quanta.  In quanta of 1e-10 this is
\* ss < rows^2; in quanta of 1 an integer ss >= 1 gives norm >= 1/rows > 1e-10.
BelowEps(ss, rows, u) ==
    IF u = "eps" THEN ss < rows * rows ELSE ss = 0

\* norm > 1e-10
AboveEps(ss, rows, u) ==
    IF u = "eps" THEN ss > rows * rows ELSE ss > 0

----------------------------------------------------------------------------
\* The kernels

\* rows * (b - np.mean(b)) for b = d[:, c]
BCentered(d, c) ==
    LET rows == NRows(d)
        b_sum == SumFn([j \in 0..(rows - 1) |-> d[j][c]], rows)
    IN  [j \in 0..(rows - 1) |-> rows * d[j][c] - b_sum]

\* Faulty variant of BNormSq: np.mean in place of np.sum under the square root.
BNormMeanSq(b_centered, rows) == SumSq(b_centered, rows) \div rows

\* rows^2 * np.sum(b_centered * b_centered): the square of b_norm
BNormSq(b_centered, rows) == SumSq(b_centered, rows)

\* Faulty variant of PairSums: the difference taken as e[:, c] - e[:, i].
PairSumsReversed(e_i, e_c, b_centered, rows) ==
    LET a_sum == SumFn([j \in 0..(rows - 1) |-> e_c[j] - e_i[j]], rows)
        a_val == [j \in 0..(rows - 1) |-> rows * (e_c[j] - e_i[j]) - a_sum]
    IN  [numerator |-> SumFn([j \in 0..(rows - 1) |-> a_val[j] * b_centered[j]], rows),
         a_ss |-> SumSq(a_val, rows)]

\* The two streaming passes of the inner loop over the genes: numerator and
\* a_ss for the columns e_i = e[:, i] and e_c = e[:, c].
PairSums(e_i, e_c, b_centered, rows) ==
    LET a_sum == SumFn([j \in 0..(rows - 1) |-> e_i[j] - e_c[j]], rows)
        a_val == [j \in 0..(rows - 1) |-> rows * (e_i[j] - e_c[j]) - a_sum]
    IN  [numerator |-> SumFn([j \in 0..(rows - 1) |-> a_val[j] * b_centered[j]], rows),
         a_ss |-> SumSq(a_val, rows)]

\* Faulty variant of Pearson: the guard written a_norm >= 1e-10.
PearsonInclusive(s, b_ss, rows, u) ==
    IF ~BelowEps(s.a_ss, rows, u)
        THEN Divide(s.numerator, s.a_ss, b_ss)
        ELSE Zero

\* The value stored for a pair: the guarded division.
Pearson(s, b_ss, rows, u) ==
    IF AboveEps(s.a_ss, rows, u)
        THEN Divide(s.numerator, s.a_ss, b_ss)
        ELSE Zero

\* The body of the inner loop.
Correlate(e_i, e_c, b_centered, b_ss, rows, u) ==
    Pearson(PairSums(e_i, e_c, b_centered, rows), b_ss, rows, u)

\* Faulty variant of DenseColumn: the entry stored at out[i, c].
DenseColumnTransposed(e, d, o, c, u) ==
    LET rows == NRows(e)
        b_centered == BCentered(d, c)
        b_ss == BNormSq(b_centered, rows)
    IN  IF BelowEps(b_ss, rows, u)
            THEN o
            ELSE [r \in DOMAIN o |->
                    [o[r] EXCEPT ![c] =
                        Correlate([j \in 0..(rows - 1) |-> e[j][r]],
                                  [j \in 0..(rows - 1) |-> e[j][c]],
                                  b_centered, b_ss, rows, u)]]

\* One prange iteration of _colDeltaCor_numba: out after column c.
DenseColumn(e, d, o, c, u) ==
    LET rows == NRows(e)
        cols == NCols(e)
        b_centered == BCentered(d, c)
        b_ss == BNormSq(b_centered, NRows(d))
    IN  IF BelowEps(b_ss, NRows(d), u)
            THEN o
            ELSE [o EXCEPT ![c] =
                    [i \in 0..(cols - 1) |->
                        Correlate([j \in 0..(rows - 1) |-> e[j][i]],
                                  [j \in 0..(rows - 1) |-> e[j][c]],
                                  b_centered, b_ss, rows, u)]]

\* numba index normalisation: a negative index i >= -n counts from the end.
Wrap(i, n) == IF i < 0 /\ i >= -n THEN i + n ELSE i

\* e[j, i] as the compiled kernel reads it: no bounds check, so the element at
\* flat offset j * cols + i of the C-contiguous buffer, and whatever lies
\* behind the buffer (g) when the offset leaves it.
Load(e, j, i, g) ==
    LET rows == NRows(e)
        cols == NCols(e)
        off == j * cols + Wrap(i, cols)
    IN  IF off >= 0 /\ off < rows * cols
            THEN e[off \div cols][off % cols]
            ELSE g

\* out[c, i] = v as the compiled kernel stores it: st = [out, bad].
Store(st, c, i, v) ==
    LET cols == NCols(st.out)
        off == c * cols + Wrap(i, cols)
    IN  IF off >= 0 /\ off < cols * cols
            THEN [st EXCEPT !.out[off \div cols][off % cols] = v]
            ELSE [st EXCEPT !.bad = TRUE]

RECURSIVE PartialLoopByPosition(_, _, _, _, _, _, _, _)
\* Faulty variant of PartialLoop: i = k, the neighbour list is not looked up.
PartialLoopByPosition(e, b_centered, b_ss, neighbors, c, u, g, arg) ==
    LET k == arg.k
        st == arg.st
        rows == NRows(e)
        n_neighbors == Cardinality(DOMAIN neighbors)
    IN  IF k >= n_neighbors THEN st
        ELSE LET i == k
                 v == Correlate([j \in 0..(rows - 1) |-> Load(e, j, i, g)],
                                [j \in 0..(rows - 1) |-> e[j][c]],
                                b_centered, b_ss, rows, u)
             IN  PartialLoopByPosition(e, b_centered, b_ss, neighbors, c, u, g,
                                       [k |-> k + 1, st |-> Store(st, c, i, v)])

RECURSIVE PartialLoop(_, _, _, _, _, _, _, _)
\* Iterations k, k+1, ..., n_neighbors-1 of the neighbour loop of column c.
PartialLoop(e, b_centered, b_ss, neighbors, c, u, g, arg) ==
    LET k == arg.k
        st == arg.st
        rows == NRows(e)
        n_neighbors == Cardinality(DOMAIN neighbors)
    IN  IF k >= n_neighbors THEN st
        ELSE LET i == neighbors[k]
                 v == Correlate([j \in 0..(rows - 1) |-> Load(e, j, i, g)],
                                [j \in 0..(rows - 1) |-> e[j][c]],
                                b_centered, b_ss, rows, u)
             IN  PartialLoop(e, b_centered, b_ss, neighbors, c, u, g,
                             [k |-> k + 1, st |-> Store(st, c, i, v)])

\* Faulty variant of PartialColumn: b is not centred (b_mean is not subtracted).
PartialColumnUncentered(e, d, st, x, c, u, g) ==
    LET rows == NRows(e)
        b_centered == [j \in 0..(rows - 1) |-> rows * d[j][c]]
        b_ss == BNormSq(b_centered, rows)
    IN  IF BelowEps(b_ss, rows, u)
            THEN st
            ELSE PartialLoop(e, b_centered, b_ss, x[c], c, u, g,
                             [k |-> 0, st |-> st])

\* One prange iteration of _colDeltaCorpartial_numba: [out, bad] after column c.
PartialColumn(e, d, st, x, c, u, g) ==
    LET b_centered == BCentered(d, c)
        b_ss == BNormSq(b_centered, NRows(d))
    IN  IF BelowEps(b_ss, NRows(d), u)
            THEN st
            ELSE PartialLoop(e, b_centered, b_ss, x[c], c, u, g,
                             [k |-> 0, st |-> st])

\* np.zeros((ncells, ncells))
Zeros(n) == [r \in 0..(n - 1) |-> [i \in 0..(n - 1) |-> Zero]]

\* The entries of o2 that differ from o1, tagged with the iteration c.
Changed(c, o1, o2) ==
    {t \in {c} \X (DOMAIN o1) \X (DOMAIN o1) : o2[t[2]][t[3]] # o1[t[2]][t[3]]}

----------------------------------------------------------------------------
\* Inputs: the arguments a call is made with

FromTuple(t) == [j \in 0..(Len(t) - 1) |-> t[j + 1]]

\* The matrix whose column c is the vector columns[c] (each of length rows).
FromColumns(columns, rows) ==
    [j \in 0..(rows - 1) |-> [c \in DOMAIN columns |-> columns[c][j]]]

Constant(rows, cols, v) == [j \in 0..(rows - 1) |-> [c \in 0..(cols - 1) |-> v]]

\* np.tile(np.arange(ncells), (ncells, 1)): every row lists every cell
TileAll(cols) == [c \in 0..(cols - 1) |-> [k \in 0..(cols - 1) |-> k]]

Step(h, n) == [j \in 0..(Genes - 1) |-> IF j < n THEN h ELSE 0]

Min(a, b) == IF a < b THEN a ELSE b

Flat == Step(0, 0)
RampUp == [j \in 0..(Genes - 1) |-> Min(j, MaxVal)]

\* Expression profiles: one gene at every height, and 1 on the first n genes.
EProfiles ==
    {Step(h, 1) : h \in 0..MaxVal} \cup {Step(1, n) : n \in 1..(Genes - 1)}

\* Velocity profiles: without and with variation.
DProfiles == {Flat, RampUp}

Staircase ==
    FromColumns([c \in 0..(Cells - 1) |-> Step(1, 1 + (c % (Genes - 1)))], Genes)

\* Every row is the same list of K indices, in or out of [0, Cells).
TileIxs == {[c \in 0..(Cells - 1) |-> t] : t \in [0..(K - 1) -> (-1)..Cells]}

\* Row c lists c + off[k]: a window around the cell, not clipped at the ends.
WindowIxs ==
    {[c \in 0..(Cells - 1) |-> [k \in 0..(K - 1) |-> c + off[k]]] :
        off \in [0..(K - 1) -> (-1)..1]}

\* np.arange(ncells).reshape(-1, 1): every cell is its own single neighbour
SelfIxs == [c \in 0..(Cells - 1) |-> [k \in {0} |-> c]]

Call(o, u, e, d, x) == [op |-> o, unit |-> u, emat |-> e, dmat |-> d, ixs |-> x]

\* Both entry points on every matrix pair built from the profiles.
GeneralInputs ==
    {Call(o[1], "one", FromColumns(ec, Genes), FromColumns(dc, Genes), o[2]) :
        o \in {<<"colDeltaCor", NoIxs>>, <<"colDeltaCorpartial", TileAll(Cells)>>},
        ec \in [0..(Cells - 1) -> EProfiles],
        dc \in [0..(Cells - 1) -> DProfiles]}

\* colDeltaCorpartial on neighbour matrices of every kind.
NeighborInputs ==
    {Call("colDeltaCorpartial", "one", Staircase, FromColumns(dc, Genes), x) :
        dc \in [0..(Cells - 1) -> DProfiles],
        x \in TileIxs \cup WindowIxs \cup {SelfIxs}}

\* The 2-gene, 2-cell scenario.
ScenarioE == <<FromTuple(<<0, 1>>), FromTuple(<<0, 3>>)>>
ScenarioD == <<FromTuple(<<1, 2>>), FromTuple(<<2, 4>>)>>

ScenarioInputs ==
    {Call("colDeltaCor", "one", FromTuple(ScenarioE), FromTuple(ScenarioD), NoIxs),
     Call("colDeltaCorpartial", "one", FromTuple(ScenarioE), FromTuple(ScenarioD),
          TileAll(2))}

\* Entries of the size of 1e-10, where norms fall below, on and above 1e-10.
TinyE == {FromTuple(<<0, 0, 0, 0>>), FromTuple(<<1, 1, 0, 0>>), FromTuple(<<2, 0, 0, 0>>)}
TinyD == {FromTuple(<<1, 0, 0, 0>>), FromTuple(<<1, 1, 0, 0>>), FromTuple(<<2, 0, 0, 0>>)}

TinyInputs ==
    {Call(o[1], "eps", FromColumns(ec, 4), FromColumns(dc, 4), o[2]) :
        o \in {<<"colDeltaCor", NoIxs>>, <<"colDeltaCorpartial", TileAll(Cells)>>},
        ec \in [0..(Cells - 1) -> TinyE],
        dc \in [0..(Cells - 1) -> TinyD]}

\* Arguments whose shapes do not fit.
MisshapenInputs ==
    {Call(o[1], "one", Staircase, d, o[2]) :
        o \in {<<"colDeltaCor", NoIxs>>, <<"colDeltaCorpartial", TileAll(Cells)>>,
               <<"colDeltaCorpartial", TileAll(Cells + 1)>>},
        d \in {Constant(Genes + 1, Cells, 1), Constant(Genes, Cells + 1, 1)}}
    \cup
    {Call("colDeltaCorpartial", "one", Staircase, FromColumns([c \in 0..(Cells - 1) |-> RampUp], Genes), x) :
        x \in {Constant(Cells + 1, K, 0), Constant(Cells - 1, K, 0)}}

Inputs ==
    GeneralInputs \cup NeighborInputs \cup ScenarioInputs \cup TinyInputs
        \cup MisshapenInputs

\* What may lie behind the buffer of emat
Garbage == 0..MaxVal

----------------------------------------------------------------------------
\* The calls

Init ==
    /\ \E inp \in Inputs :
        /\ op = inp.op
        /\ unit = inp.unit
        /\ emat = inp.emat
        /\ dmat = inp.dmat
        /\ ixs = inp.ixs
    /\ pc = "called"
    /\ err = "none"
    /\ out = NoOut
    /\ done = {}
    /\ touched = {}
    /\ corrupted = FALSE

\* Faulty variant of SameShape: only the cell counts are compared.
SameCellCount(e, d) == NCols(e) = NCols(d)

\* emat.shape == dmat.shape
SameShape(e, d) == Shape(e) = Shape(d)

\* ixs.shape[0] == emat.shape[1]
IxsRowsFit(x, e) == NRows(x) = NCols(e)

Raise(e) ==
    /\ pc' = "raised"
    /\ err' = e
    /\ UNCHANGED <<op, unit, emat, dmat, ixs, out, done, touched, corrupted>>

\* Allocate out and enter the kernel.
Launch ==
    /\ pc' = "kernel"
    /\ out' = Zeros(NCols(emat))
    /\ UNCHANGED <<op, unit, emat, dmat, ixs, err, done, touched, corrupted>>

\* colDeltaCor: emat.shape != dmat.shape
ColDeltaCorRaise ==
    /\ pc = "called"
    /\ op = "colDeltaCor"
    /\ ~SameShape(emat, dmat)
    /\ Raise("shape")

\* colDeltaCor up to the call of the kernel
ColDeltaCorLaunch ==
    /\ pc = "called"
    /\ op = "colDeltaCor"
    /\ SameShape(emat, dmat)
    /\ Launch

\* colDeltaCorpartial: emat.shape != dmat.shape
PartialRaiseShape ==
    /\ pc = "called"
    /\ op = "colDeltaCorpartial"
    /\ ~SameShape(emat, dmat)
    /\ Raise("shape")

\* colDeltaCorpartial: ixs.shape[0] != emat.shape[1]
PartialRaiseIxs ==
    /\ pc = "called"
    /\ op = "colDeltaCorpartial"
    /\ SameShape(emat, dmat)
    /\ ~IxsRowsFit(ixs, emat)
    /\ Raise("ixs")

\* colDeltaCorpartial up to the call of the kernel
PartialLaunch ==
    /\ pc = "called"
    /\ op = "colDeltaCorpartial"
    /\ SameShape(emat, dmat)
    /\ IxsRowsFit(ixs, emat)
    /\ Launch

\* A worker runs iteration c of the prange loop of _colDeltaCor_numba.
DenseTask(c) ==
    /\ pc = "kernel"
    /\ op = "colDeltaCor"
    /\ c \in (0..(NCols(emat) - 1)) \ done
    /\ out' = DenseColumn(emat, dmat, out, c, unit)
    /\ done' = done \cup {c}
    /\ touched' = touched \cup Changed(c, out, out')
    /\ UNCHANGED <<op, unit, emat, dmat, ixs, pc, err, corrupted>>

\* A worker runs iteration c of the prange loop of _colDeltaCorpartial_numba.
PartialTask(c) ==
    /\ pc = "kernel"
    /\ op = "colDeltaCorpartial"
    /\ c \in (0..(NCols(emat) - 1)) \ done
    /\ \E g \in Garbage :
        LET st == PartialColumn(emat, dmat, [out |-> out, bad |-> corrupted],
                                ixs, c, unit, g)
        IN  /\ out' = st.out
            /\ corrupted' = st.bad
    /\ done' = done \cup {c}
    /\ touched' = touched \cup Changed(c, out, out')
    /\ UNCHANGED <<op, unit, emat, dmat, ixs, pc, err>>

\* The prange loop has joined; the wrapper returns out.
Return ==
    /\ pc = "kernel"
    /\ done = 0..(NCols(emat) - 1)
    /\ pc' = "returned"
    /\ UNCHANGED <<op, unit, emat, dmat, ixs, err, out, done, touched, corrupted>>

Next ==
    \/ ColDeltaCorRaise
    \/ ColDeltaCorLaunch
    \/ PartialRaiseShape
    \/ PartialRaiseIxs
    \/ PartialLaunch
    \/ \E c \in 0..(Cells - 1) : DenseTask(c)
    \/ \E c \in 0..(Cells - 1) : PartialTask(c)
    \/ Return

Spec == Init /\ [][Next]_vars


----------------------------------------------------------------------------
\* Vocabulary of the properties

Partial == op = "colDeltaCorpartial"

Columns == 0..(NCols(emat) - 1)

GeneIdx == 0..(NRows(emat) - 1)

\* Every index of ixs lies in [0, cells): the data model's requirement on Ixs.
IxsInRange ==
    Partial => \A c \in DOMAIN ixs : \A k \in DOMAIN ixs[c] : ixs[c][k] \in Columns

Neighbors(c) == {ixs[c][k] : k \in DOMAIN ixs[c]}

\* The inner indices the kernel visits for column c
Visited(c) == IF Partial THEN Neighbors(c) ELSE Columns

ECol(i) == [j \in GeneIdx |-> emat[j][i]]

DCol(c) == [j \in GeneIdx |-> dmat[j][c]]

\* b_norm^2, numerator and a_ss of a pair, as the kernel computes them
VelocitySq(c) == BNormSq(BCentered(dmat, c), NRows(emat))

Sums(c, i) == PairSums(ECol(i), ECol(c), BCentered(dmat, c), NRows(emat))

\* rows^2 * (1e-10)^2 in squared quanta; below one squared quantum of "one"
NormBelow(ss) == IF unit = "eps" THEN ss < NRows(emat) * NRows(emat) ELSE ss <= 0
NormEqual(ss) == unit = "eps" /\ ss = NRows(emat) * NRows(emat)

Skipped(c) == NormBelow(VelocitySq(c))

ZeroRow == [i \in Columns |-> Zero]

Finite(v) == v.den > 0

NoWork ==
    /\ pc \in {"called", "raised"}
    /\ out = NoOut
    /\ done = {}
    /\ touched = {}

RECURSIVE SequentialFrom(_, _)
\* The kernel run by one worker, columns c, c+1, ..., cells-1 in order.
SequentialFrom(st, c) ==
    IF c >= NCols(emat) THEN st
    ELSE SequentialFrom(
            IF Partial
                THEN PartialColumn(emat, dmat, st, ixs, c, unit, 0)
                ELSE [st EXCEPT !.out = DenseColumn(emat, dmat, st.out, c, unit)],
            c + 1)

Sequential == SequentialFrom([out |-> Zeros(NCols(emat)), bad |-> FALSE], 0).out

\* out after the iteration of column c alone, started on the zero matrix
ColumnAlone(c) ==
    IF Partial
        THEN PartialColumn(emat, dmat, [out |-> Zeros(NCols(emat)), bad |-> FALSE],
                           ixs, c, unit, 0).out
        ELSE DenseColumn(emat, dmat, Zeros(NCols(emat)), c, unit)

RECURSIVE DenseFrom(_, _)
DenseFrom(o, c) ==
    IF c >= NCols(emat) THEN o
    ELSE DenseFrom(DenseColumn(emat, dmat, o, c, unit), c + 1)

\* What colDeltaCor returns for the same emat and dmat
DenseOut == DenseFrom(Zeros(NCols(emat)), 0)

----------------------------------------------------------------------------
\* C1: for inputs with in-range neighbours, the iteration for column c
\* changes only entries of row c of out and stores nothing outside out, and
\* whatever the order in which workers ran the columns, the matrix returned
\* is the one a single worker running columns 0..cells-1 in order produces
\* (so it is a function of the inputs alone).
C1_ColumnsIndependent ==
    IxsInRange =>
        /\ \A t \in touched : t[2] = t[1]
        /\ ~corrupted
        /\ pc = "returned" => out = Sequential

\* A call has returned in which every one of at least two columns wrote its row.
C1_Witness ==
    /\ pc = "returned"
    /\ IxsInRange
    /\ Cardinality(Columns) >= 2
    /\ \A c \in Columns : \E i \in Columns : <<c, c, i>> \in touched

\* C2: colDeltaCorpartial with in-range neighbours: every entry out[c][i]
\* with i not listed in ixs[c] is exactly 0, during the kernel and on return.
C2_NonNeighborsZero ==
    (Partial /\ IxsInRange /\ pc \in {"kernel", "returned"}) =>
        \A c \in Columns : \A i \in Columns \ Neighbors(c) : out[c][i] = Zero

\* Returned: a row with a non-zero entry at a neighbour and a non-neighbour.
C2_Witness ==
    /\ pc = "returned"
    /\ Partial
    /\ IxsInRange
    /\ \E c \in Columns :
        /\ Columns \ Neighbors(c) # {}
        /\ \E i \in Neighbors(c) : out[c][i] # Zero

\* C3: colDeltaCorpartial with in-range neighbours returns, at every (c, i)
\* with i listed in ixs[c] (once or several times), the entry colDeltaCor
\* returns for the same emat and dmat; when every row of ixs lists all cells
\* the two matrices are equal.
C3_PartialMatchesDense ==
    (Partial /\ IxsInRange /\ pc = "returned") =>
        /\ \A c \in Columns : \A i \in Neighbors(c) : out[c][i] = DenseOut[c][i]
        /\ (\A c \in Columns : Neighbors(c) = Columns) => out = DenseOut

\* Returned: a row that lists one index twice, with a non-zero entry there.
C3_Witness ==
    /\ pc = "returned"
    /\ Partial
    /\ IxsInRange
    /\ \E c \in Columns : \E k1, k2 \in DOMAIN ixs[c] :
        /\ k1 # k2
        /\ ixs[c][k1] = ixs[c][k2]
        /\ out[c][ixs[c][k1]] # Zero

\* C4 as stated: with emat.shape != dmat.shape the call raises the shape error,
\* and colDeltaCorpartial with ixs of a row count other than the cell count of
\* emat raises the neighbour-shape error; in both cases no kernel is entered
\* and no output exists.
C4_AsStated ==
    /\ Shape(emat) # Shape(dmat) =>
        /\ NoWork
        /\ pc = "raised" => err = "shape"
    /\ (Partial /\ NRows(ixs) # NCols(emat)) =>
        /\ NoWork
        /\ pc = "raised" => err = "ixs"

\* C4 amended: as above, but the neighbour-shape error is the one raised only
\* when emat.shape = dmat.shape; with both mismatches the shape error is
\* raised.  Nothing is raised on arguments that pass both checks.
C4_ValidationBeforeWork ==
    /\ Shape(emat) # Shape(dmat) =>
        /\ NoWork
        /\ pc = "raised" => err = "shape"
    /\ (Partial /\ NRows(ixs) # NCols(emat)) =>
        /\ NoWork
        /\ pc = "raised" =>
            err = (IF Shape(emat) = Shape(dmat) THEN "ixs" ELSE "shape")
    /\ pc = "raised" =>
        /\ NoWork
        /\ Shape(emat) # Shape(dmat) \/ (Partial /\ NRows(ixs) # NCols(emat))

\* The neighbour-shape error has been raised.
C4_Witness ==
    /\ pc = "raised"
    /\ err = "ixs"
    /\ NRows(ixs) # NCols(emat)
    /\ out = NoOut

\* C5: on return (in-range neighbours), the row of every column whose b_norm
\* is below 1e-10 is all zero, and the row of every other column is what that
\* column's iteration alone writes into a zero matrix.
C5_SkippedRowsZero ==
    (pc = "returned" /\ IxsInRange) =>
        \A c \in Columns :
            IF Skipped(c)
                THEN out[c] = ZeroRow
                ELSE out[c] = ColumnAlone(c)[c]


\* Returned: one column was skipped and another wrote a non-zero entry.
C5_Witness ==
    /\ pc = "returned"
    /\ IxsInRange
    /\ \E c1, c2 \in Columns :
        /\ Skipped(c1)
        /\ VelocitySq(c1) > 0
        /\ ~Skipped(c2)
        /\ out[c2] # ZeroRow

\* C6 as stated: on return, for every column c that is not skipped and every
\* visited i, out[c][i] is 0 if a_norm < 1e-10 and numerator / (a_norm * b_norm)
\* for every a_norm >= 1e-10; and no entry is NaN or infinite.
C6_AsStated ==
    (pc = "returned" /\ IxsInRange) =>
        /\ \A c \in Columns : \A i \in Visited(c) :
            ~Skipped(c) =>
                out[c][i] = (IF NormBelow(Sums(c, i).a_ss)
                                THEN Zero
                                ELSE Divide(Sums(c, i).numerator, Sums(c, i).a_ss,
                                            VelocitySq(c)))
        /\ \A c \in Columns : \A i \in Columns : Finite(out[c][i])

\* C6 amended: out[c][i] is 0 if a_norm <= 1e-10 and
\* numerator / (a_norm * b_norm) if a_norm > 1e-10; the division is never
\* made with a zero denominator and no entry is NaN or infinite.
C6_GuardedDivision ==
    (pc = "returned" /\ IxsInRange) =>
        /\ \A c \in Columns : \A i \in Visited(c) :
            ~Skipped(c) =>
                /\ out[c][i] =
                    (IF NormBelow(Sums(c, i).a_ss) \/ NormEqual(Sums(c, i).a_ss)
                        THEN Zero
                        ELSE Divide(Sums(c, i).numerator, Sums(c, i).a_ss,
                                    VelocitySq(c)))
                /\ out[c][i] # Zero => Sums(c, i).a_ss * VelocitySq(c) > 0
        /\ \A c \in Columns : \A i \in Columns : Finite(out[c][i])

\* Returned: a visited pair of a column that is not skipped, with a_norm
\* exactly 1e-10 and a non-zero numerator, whose entry is 0.
C6_Witness ==
    /\ pc = "returned"
    /\ IxsInRange
    /\ \E c \in Columns : \E i \in Visited(c) :
        /\ ~Skipped(c)
        /\ NormEqual(Sums(c, i).a_ss)
        /\ Sums(c, i).numerator # 0
        /\ out[c][i] = Zero

\* C7: on return from a call with arguments of equal shape (and in-range
\* neighbours), every entry of out lies in [-1, 1]; for every computed pair
\* numerator^2 <= a_norm^2 * b_norm^2; every entry not computed is 0.
C7_EntriesInUnitRange ==
    (pc = "returned" /\ IxsInRange) =>
        \A c \in Columns : \A i \in Columns :
            /\ Finite(out[c][i])
            /\ out[c][i].num <= out[c][i].den
            /\ IF ~Skipped(c) /\ i \in Visited(c)
                THEN Sums(c, i).numerator * Sums(c, i).numerator
                        <= Sums(c, i).a_ss * VelocitySq(c)
                ELSE out[c][i] = Zero

\* Returned: an entry strictly between 0 and 1 in absolute value and an
\* entry that was not computed.
C7_Witness ==
    /\ pc = "returned"
    /\ IxsInRange
    /\ \E c \in Columns : \E i \in Columns :
        0 < out[c][i].num /\ out[c][i].num < out[c][i].den
    /\ \E c \in Columns : \E i \in Columns : ~(~Skipped(c) /\ i \in Visited(c))

\* The Pearson correlation of x and y over the index set S, by the textbook
\* formula (n Sxy - Sx Sy) / sqrt((n Sxx - Sx^2) (n Syy - Sy^2)), compared with
\* the entry v: same sign, same square.
RECURSIVE SumOver(_, _)
SumOver(f, S) ==
    IF S = {} THEN 0
    ELSE LET j == CHOOSE j \in S : TRUE IN f[j] + SumOver(f, S \ {j})

IsPearson(v, x, y, S) ==
    LET n == Cardinality(S)
        cov == n * SumOver([j \in S |-> x[j] * y[j]], S) - SumOver(x, S) * SumOver(y, S)
        vx == n * SumOver([j \in S |-> x[j] * x[j]], S) - SumOver(x, S) * SumOver(x, S)
        vy == n * SumOver([j \in S |-> y[j] * y[j]], S) - SumOver(y, S) * SumOver(y, S)
    IN  /\ vx * vy > 0
        /\ Finite(v)
        /\ v.sgn = Sign(cov)
        /\ v.num * vx * vy = v.den * cov * cov

One == [sgn |-> 1, num |-> 1, den |-> 1]
MinusOne == [sgn |-> -1, num |-> 1, den |-> 1]

IsScenario ==
    /\ op = "colDeltaCor"
    /\ unit = "one"
    /\ emat = FromTuple(ScenarioE)
    /\ dmat = FromTuple(ScenarioD)

\* C8: colDeltaCor on E = [[0,1],[0,3]], D = [[1,2],[2,4]] returns
\* [[0, 1], [-1, 0]]; the off-diagonal entries are the Pearson correlation of
\* D[:, c] with E[:, i] - E[:, c].
C8_Scenario ==
    (IsScenario /\ pc = "returned") =>
        /\ out[0][0] = Zero
        /\ out[0][1] = One
        /\ out[1][0] = MinusOne
        /\ out[1][1] = Zero
        /\ \A c \in Columns : \A i \in Columns \ {c} :
            IsPearson(out[c][i], DCol(c), [j \in GeneIdx |-> emat[j][i] - emat[j][c]],
                      GeneIdx)

\* The scenario call has returned.
C8_Witness ==
    /\ IsScenario
    /\ pc = "returned"
    /\ done = {0, 1}

\* C9 as stated: when every velocity column has variation, colDeltaCor, and
\* colDeltaCorpartial with ixs[c] = [c], return a matrix whose diagonal is
\* not all zero.
C9_DiagonalNotAllZero ==
    (/\ pc = "returned"
     /\ Partial => ixs = [c \in Columns |-> [k \in {0} |-> c]]
     /\ \A c \in Columns : ~Skipped(c)) =>
        \E c \in Columns : out[c][c] # Zero

\* C10 as stated: colDeltaCorpartial called with arguments of fitting shapes
\* and some index of ixs outside [0, cells) fails before any numeric work,
\* and no entry of out is written through such an index.
C10_FailFastOnBadIndex ==
    (/\ Partial
     /\ Shape(emat) = Shape(dmat)
     /\ NRows(ixs) = NCols(emat)
     /\ ~IxsInRange) =>
        /\ NoWork
        /\ pc # "called" => pc = "raised"
        /\ \A t \in touched : t[2] = t[1]

============================================================================
